---- MODULE Spec2Model ----
(***************************************************************************)
(* Model of the chat surface of chatbot-ui/app/page.js (component Chat):   *)
(* the conversation session driven by handleSubmit, the reply pipeline     *)
(* (field priority, COD receipt unwrap, apology substitution) and the      *)
(* toast scheduler of the mount effect.                                    *)
(*                                                                         *)
(* A JavaScript string is a sequence of one-character strings, so that     *)
(* trim, includes, concatenation and JSON.parse are computed and not       *)
(* assumed.  Other JavaScript values are records tagged by "type".         *)
(***************************************************************************)
EXTENDS Integers, Sequences, FiniteSets, TLC

VARIABLES
    query,          \* useState('')        input buffer
    chatHistory,    \* useState([])        sequence of [role, content]
    threadId,       \* useState(null)
    isLoading,      \* useState(false)     the pending flag
    mode,           \* useState('standard')
    selectedFile,   \* useState(null)      attachment slot
    toasts,         \* useState([])
    pending,        \* activations of handleSubmit suspended at the await of fetch
    lastCall,       \* observation: how the last session handler ran ("rejected": handleSubmit
                    \* returned before touching state; "resolved": the outcome it resumed with)
    supplied,       \* observation: the thread id of the latest response that carried one
    now,            \* wall clock (ms since mount) as read by Date.now()
    nextTick,       \* due time of the next setInterval callback
    timeouts,       \* setTimeout callbacks not yet run: [id, due]
    intervalOn,     \* the interval of the mount effect has not been cleared
    pieces,         \* the pieces a message text is composed of
    msgContent,     \* msg.content of the message being rendered
    rendered,       \* what renderContent(msg.content) returned (Undefined before the call)
    galleryImagesStr, \* the imagesStr prop of a ProductGallery instance
    currentIndex    \* useState(0) of that instance

sessionVars == <<query, chatHistory, threadId, isLoading, mode, selectedFile>>
toastVars == <<toasts, now, nextTick, timeouts, intervalOn>>
viewVars == <<pieces, msgContent, rendered, galleryImagesStr, currentIndex>>
vars == <<query, chatHistory, threadId, isLoading, mode, selectedFile, toasts,
          pending, lastCall, supplied, now, nextTick, timeouts, intervalOn,
          pieces, msgContent, rendered, galleryImagesStr, currentIndex>>

----------------------------------------------------------------------------
(* Bounds of the model *)

\* accepted submits per run of Spec
MaxSubmits == 2
\* accepted submits per run of SpecLive
MaxLiveSubmits == 1
\* accepted submits per run of SpecReply (full reply catalogue)
MaxReplySubmits == 1
\* accepted submits per run of SpecSurface (session together with the toast timers)
MaxSurfaceSubmits == 1
\* interval callbacks per run
MaxTicks == 2
\* pieces per message text of SpecParser
MaxPieces == 3
\* interval callbacks per run of SpecToast
MaxToastTicks == 8
\* toasts alive at once, where the updaters of the toast set are applied to
\* sets the timers do not produce
MaxAlive == 3
\* comma-separated entries per imagesStr of SpecGallery
MaxEntries == 3

----------------------------------------------------------------------------
(* JavaScript values *)

Null == [type |-> "null"]
Undefined == [type |-> "undefined"]
Str(s) == [type |-> "string", str |-> s]
Num(n) == [type |-> "number", num |-> n]
Bool(b) == [type |-> "boolean", bool |-> b]
Obj(members) == [type |-> "object", members |-> members]
Arr(items) == [type |-> "array", items |-> items]
File(name) == [type |-> "file", name |-> name]

\* ToBoolean, as used by ||, ! and if
Truthy(v) ==
    CASE v.type = "undefined" -> FALSE
      [] v.type = "null" -> FALSE
      [] v.type = "string" -> Len(v.str) > 0
      [] v.type = "number" -> v.num # 0
      [] v.type = "boolean" -> v.bool
      [] OTHER -> TRUE

\* a || b
Or(a, b) == IF Truthy(a) THEN a ELSE b

\* property read obj.key: the last member of that name; undefined on a value
\* without members
Get(v, key) ==
    IF v.type = "object"
    THEN LET hits == {i \in 1..Len(v.members) : v.members[i].key = key}
         IN IF hits = {} THEN Undefined
            ELSE v.members[CHOOSE i \in hits : \A j \in hits : j <= i].val
    ELSE Undefined

----------------------------------------------------------------------------
(* String functions of the runtime *)

WhiteSpace == {" ", "\t", "\n"}
Digits == {"0", "1", "2", "3", "4", "5", "6", "7", "8", "9"}

RECURSIVE TrimStart(_)
TrimStart(s) ==
    IF s # <<>> /\ Head(s) \in WhiteSpace THEN TrimStart(Tail(s)) ELSE s

RECURSIVE TrimEnd(_)
TrimEnd(s) ==
    IF s # <<>> /\ s[Len(s)] \in WhiteSpace
    THEN TrimEnd(SubSeq(s, 1, Len(s) - 1)) ELSE s

\* String.prototype.trim
Trim(s) == TrimEnd(TrimStart(s))

\* String.prototype.includes
Includes(s, sub) ==
    \E i \in 1..(Len(s) - Len(sub) + 1) : SubSeq(s, i, i + Len(sub) - 1) = sub

IsPrefix(s, t) == Len(s) <= Len(t) /\ SubSeq(t, 1, Len(s)) = s

----------------------------------------------------------------------------
(* JSON.parse: objects, arrays, strings without escape sequences,          *)
(* unsigned integers and the three literals; anything else is a            *)
(* SyntaxError (ok = FALSE)                                                *)

JFail == [ok |-> FALSE]
JOk(v, next) == [ok |-> TRUE, val |-> v, next |-> next]

RECURSIVE SkipWs(_, _)
SkipWs(s, i) ==
    IF i <= Len(s) /\ s[i] \in WhiteSpace THEN SkipWs(s, i + 1) ELSE i

StartsAt(s, i, lit) ==
    i + Len(lit) - 1 <= Len(s) /\ SubSeq(s, i, i + Len(lit) - 1) = lit

DigitVal(c) == CHOOSE n \in 0..9 : <<"0", "1", "2", "3", "4", "5", "6", "7", "8", "9">>[n + 1] = c

RECURSIVE NumVal(_)
NumVal(ds) ==
    IF ds = <<>> THEN 0
    ELSE 10 * NumVal(SubSeq(ds, 1, Len(ds) - 1)) + DigitVal(ds[Len(ds)])

\* s[i] is the opening quote
ParseString(s, i) ==
    LET closes == {j \in (i + 1)..Len(s) : s[j] = "\""}
    IN  IF closes = {} THEN JFail
        ELSE LET j == CHOOSE c \in closes : \A d \in closes : c <= d
                 body == SubSeq(s, i + 1, j - 1)
             IN  IF \E k \in 1..Len(body) : body[k] \in {"\\", "\t", "\n"}
                 THEN JFail
                 ELSE JOk(Str(body), j + 1)

\* s[i] is a digit
ParseNumber(s, i) ==
    LET stops == {j \in i..(Len(s) + 1) : j = Len(s) + 1 \/ s[j] \notin Digits}
        e == CHOOSE c \in stops : \A d \in stops : c <= d
        ds == SubSeq(s, i, e - 1)
    IN  IF Len(ds) > 1 /\ ds[1] = "0" THEN JFail ELSE JOk(Num(NumVal(ds)), e)

RECURSIVE ParseValue(_, _), ParseMembers(_, _, _), ParseItems(_, _, _)

ParseValue(s, i0) ==
    LET i == SkipWs(s, i0)
    IN  IF i > Len(s) THEN JFail
        ELSE IF s[i] = "\"" THEN ParseString(s, i)
        ELSE IF s[i] = "{"
             THEN LET j == SkipWs(s, i + 1)
                  IN  IF j <= Len(s) /\ s[j] = "}" THEN JOk(Obj(<<>>), j + 1)
                      ELSE ParseMembers(s, j, <<>>)
        ELSE IF s[i] = "["
             THEN LET j == SkipWs(s, i + 1)
                  IN  IF j <= Len(s) /\ s[j] = "]" THEN JOk(Arr(<<>>), j + 1)
                      ELSE ParseItems(s, j, <<>>)
        ELSE IF s[i] \in Digits THEN ParseNumber(s, i)
        ELSE IF StartsAt(s, i, <<"t", "r", "u", "e">>) THEN JOk(Bool(TRUE), i + 4)
        ELSE IF StartsAt(s, i, <<"f", "a", "l", "s", "e">>) THEN JOk(Bool(FALSE), i + 5)
        ELSE IF StartsAt(s, i, <<"n", "u", "l", "l">>) THEN JOk(Null, i + 4)
        ELSE JFail

\* i is the position of a member's key
ParseMembers(s, i, acc) ==
    IF i > Len(s) \/ s[i] # "\"" THEN JFail
    ELSE LET k == ParseString(s, i)
         IN  IF ~k.ok THEN JFail
             ELSE LET c == SkipWs(s, k.next)
                  IN  IF c > Len(s) \/ s[c] # ":" THEN JFail
                      ELSE LET v == ParseValue(s, c + 1)
                           IN  IF ~v.ok THEN JFail
                               ELSE LET e == SkipWs(s, v.next)
                                        acc2 == Append(acc, [key |-> k.val.str, val |-> v.val])
                                    IN  IF e > Len(s) THEN JFail
                                        ELSE IF s[e] = "}" THEN JOk(Obj(acc2), e + 1)
                                        ELSE IF s[e] = ","
                                             THEN ParseMembers(s, SkipWs(s, e + 1), acc2)
                                        ELSE JFail

\* i is the position of an item
ParseItems(s, i, acc) ==
    LET v == ParseValue(s, i)
    IN  IF ~v.ok THEN JFail
        ELSE LET e == SkipWs(s, v.next)
                 acc2 == Append(acc, v.val)
             IN  IF e > Len(s) THEN JFail
                 ELSE IF s[e] = "]" THEN JOk(Arr(acc2), e + 1)
                 ELSE IF s[e] = "," THEN ParseItems(s, e + 1, acc2)
                 ELSE JFail

JSONParse(s) ==
    LET r == ParseValue(s, 1)
    IN  IF r.ok /\ SkipWs(s, r.next) = Len(s) + 1 THEN r ELSE JFail

----------------------------------------------------------------------------
(* String literals of page.js *)

CodSuccess == <<"C","O","D","_","S","U","C","C","E","S","S">>
PaymentUrlKey == <<"p","a","y","m","e","n","t","_","u","r","l">>
MessageKey == <<"m","e","s","s","a","g","e">>
ApologyText == <<"I"," ","a","p","o","l","o","g","i","z","e",","," ","I"," ","c","o","u","l","d","n","'","t"," ","c","o","n","n","e","c","t",".">>
\* mutant of ConnectionErrorText: the catch block shows the apology text
ApologyInCatch == ApologyText
ConnectionErrorText == <<"C","o","n","n","e","c","t","i","o","n"," ","e","r","r","o","r","."," ","P","l","e","a","s","e"," ","t","r","y"," ","a","g","a","i","n",".">>
AttachedPrefix == <<" ","[","A","t","t","a","c","h","e","d",":"," ">>
TellMeAbout == <<"T","e","l","l"," ","m","e"," ","a","b","o","u","t"," ">>

\* featuredProducts: the name of the first entry (the ticker items differ
\* only in the name they pass)
featuredProducts == {<<"W","i","l","d"," ","B","l","o","o","m"," ","W","h","i","s","p","e","r">>}

trends ==
    << [title |-> "Trending", body |-> "Floral prints are up 20% this week!"],
       [title |-> "Restock Alert", body |-> "The Verona Vine is back in Medium."],
       [title |-> "Style Tip", body |-> "Pair Crimson Skirts with white heels."],
       [title |-> "New Arrival", body |-> "Summer Collection is now live."],
       [title |-> "Best Seller", body |-> "Pink Rhapsody is selling out fast!"],
       [title |-> "Fabric Note", body |-> "New Linen collection arriving soon."] >>

\* setInterval period and setTimeout delay of the mount effect (ms)
TickPeriod == 45000

\* mutant of ToastLifetime: a toast outlives the period
ToastLifetimeLong == TickPeriod + 5000

ToastLifetime == 5000

----------------------------------------------------------------------------
(* Inputs: what the user types and picks, what the remote service returns *)

Hi == <<"h", "i">>
Blank == <<" ">>
QueryInputs == {<<>>, Blank, Hi}
Modes == {"standard", "vto"}
FileInputs == {File(<<"a", ".", "p", "n", "g">>)}

T1 == <<"t", "1">>
T2 == <<"t", "2">>
OkText == <<"o", "k">>
AltText == <<"a", "l", "t">>
Order5 == <<"O","r","d","e","r"," ","#","5"," ","c","o","n","f","i","r","m","e","d">>

Quoted(s) == <<"\"">> \o s \o <<"\"">>
Member(k, v) == Quoted(k) \o <<":">> \o Quoted(v)

\* {"payment_url":"COD_SUCCESS","message":"Order #5 confirmed"}
CodReceipt ==
    <<"{">> \o Member(PaymentUrlKey, CodSuccess) \o <<",">> \o Member(MessageKey, Order5) \o <<"}">>
\* the same with the spacing of a pretty-printer
CodReceiptSpaced ==
    <<"{", " ">> \o Quoted(PaymentUrlKey) \o <<":", " ">> \o Quoted(CodSuccess) \o <<",", " ">>
        \o Quoted(MessageKey) \o <<":", " ">> \o Quoted(Order5) \o <<" ", "}">>
\* {"payment_url":"COD_SUCCESS"}
CodNoMessage == <<"{">> \o Member(PaymentUrlKey, CodSuccess) \o <<"}">>
\* {"payment_url":"COD_SUCCESS","message":""}
CodEmptyMessage ==
    <<"{">> \o Member(PaymentUrlKey, CodSuccess) \o <<",">> \o Member(MessageKey, <<>>) \o <<"}">>
\* {"payment_url":"ok","message":"COD_SUCCESS"}
CodOtherUrl ==
    <<"{">> \o Member(PaymentUrlKey, OkText) \o <<",">> \o Member(MessageKey, CodSuccess) \o <<"}">>
\* {"payment_url":"COD_SUCCESS","message":"Order #5 confirmed"     (no closing brace)
CodTruncated ==
    <<"{">> \o Member(PaymentUrlKey, CodSuccess) \o <<",">> \o Member(MessageKey, Order5)
\* I like COD_SUCCESS as a word
CodProse == <<"I"," ","l","i","k","e"," ">> \o CodSuccess \o <<" ","a","s"," ","a"," ","w","o","r","d">>
\* {"payment_url":"ok","message":"Order #5 confirmed"}     (no marker)
JsonNoMarker ==
    <<"{">> \o Member(PaymentUrlKey, OkText) \o <<",">> \o Member(MessageKey, Order5) \o <<"}">>

\* a decoded response body: the three fields handleSubmit reads
Data(response, content, thread_id) ==
    [type |-> "object", response |-> response, content |-> content, thread_id |-> thread_id]

\* bodies of the session specifications: plain replies, with and without a
\* thread id
Bodies ==
    { Data(Str(OkText), Undefined, Undefined),
      Data(Str(OkText), Undefined, Str(T1)),
      Data(Str(OkText), Undefined, Str(T2)),
      Data(Str(OkText), Undefined, Str(<<>>)),
      Data(Undefined, Undefined, Undefined) }

\* bodies of the reply specification: receipts, near-receipts and the
\* response/content combinations
ReplyBodies ==
    Bodies \cup
    { Data(Str(r), Undefined, Undefined) :
        r \in {CodReceipt, CodReceiptSpaced, CodNoMessage, CodEmptyMessage,
               CodOtherUrl, CodTruncated, CodProse, JsonNoMarker} }
    \cup
    { Data(Str(CodReceipt), Undefined, Str(T1)),
      Data(Undefined, Str(AltText), Undefined),
      Data(Str(<<>>), Str(AltText), Undefined),
      Data(Str(OkText), Str(AltText), Undefined),
      Data(Str(<<>>), Undefined, Undefined) }

\* how a dispatched request ends: fetch rejects, response.json() rejects, or
\* a body is decoded (JSON null included)
Outcomes(B) ==
    {[kind |-> "network_error"], [kind |-> "bad_body"]}
    \cup {[kind |-> "body", data |-> d] : d \in B \cup {Null}}

----------------------------------------------------------------------------
(* handleSubmit: the synchronous part, up to the await of fetch *)

\* mutant of AppendMessage: the message is put first
PrependMessage(prev, message) == <<message>> \o prev

\* setChatHistory((prev) => [...prev, message])
AppendMessage(prev, message) == Append(prev, message)

NumRole(h, role) == Cardinality({i \in 1..Len(h) : h[i].role = role})

\* const textToSend = overrideText || query
TextToSend(overrideText) ==
    IF Truthy(overrideText) THEN overrideText.str ELSE query

\* mutant of ReturnsEarly: the text is tested without trim
ReturnsEarlyNoTrim(textToSend, file) ==
    ~Truthy(Str(textToSend)) /\ ~Truthy(file)

\* if (!textToSend.trim() && !selectedFile) return
ReturnsEarly(textToSend, file) ==
    ~Truthy(Str(Trim(textToSend))) /\ ~Truthy(file)

\* mutant of DisplayContent: the attachment is not mentioned
DisplayContentTextOnly(textToSend, file) == textToSend

\* displayContent: the text, then ` [Attached: ${selectedFile.name}]`
DisplayContent(textToSend, file) ==
    IF Truthy(file)
    THEN textToSend \o AttachedPrefix \o file.name \o <<"]">>
    ELSE textToSend

\* mutant of FileAfterSubmit: the slot is not cleared
FileKept(currentFile) == currentFile

\* setSelectedFile(null), after const currentFile = selectedFile
FileAfterSubmit(currentFile) == Null

\* mutant of ThreadIdField: the field is never appended
ThreadIdFieldOmitted(tid) == Undefined

\* if (threadId) formData.append('thread_id', threadId)
ThreadIdField(tid) == IF Truthy(tid) THEN tid ELSE Undefined

\* mutant of FormData: the query field is the text as it is
FormDataRawQuery(textToSend, currentFile) ==
    [ query |-> textToSend,
      mode |-> mode,
      thread_id |-> ThreadIdField(threadId),
      file |-> IF Truthy(currentFile) THEN currentFile ELSE Undefined ]

\* the FormData of the request; an absent field is Undefined
FormData(textToSend, currentFile) ==
    [ query |-> Or(Str(textToSend), Str(<<" ">>)).str,
      mode |-> mode,
      thread_id |-> ThreadIdField(threadId),
      file |-> IF Truthy(currentFile) THEN currentFile ELSE Undefined ]

\* handleSubmit(e, overrideText) up to the first await; limit bounds the
\* number of accepted submits of a run
HandleSubmit(overrideText, limit) ==
    LET textToSend == TextToSend(overrideText)
    IN  IF ReturnsEarly(textToSend, selectedFile)
        THEN /\ lastCall' = [op |-> "rejected"]
             /\ UNCHANGED <<sessionVars, pending, supplied, toastVars, viewVars>>
        ELSE /\ NumRole(chatHistory, "human") < limit
             /\ chatHistory' = AppendMessage(chatHistory,
                    [role |-> "human", content |-> DisplayContent(textToSend, selectedFile)])
             /\ query' = <<>>
             /\ selectedFile' = FileAfterSubmit(selectedFile)
             /\ isLoading' = TRUE
             /\ pending' = pending \cup
                    {[at |-> Len(chatHistory) + 1, form |-> FormData(textToSend, selectedFile)]}
             /\ lastCall' = [op |-> "other"]
             /\ UNCHANGED <<threadId, mode, supplied, toastVars, viewVars>>

\* <button type="submit" disabled={isLoading || (!query && !selectedFile)}>
SendDisabled == isLoading \/ (~Truthy(Str(query)) /\ ~Truthy(selectedFile))

\* <form onSubmit={(e) => handleSubmit(e)}>: the form submits through its
\* submit button, so not while that button is disabled
FormSubmit(limit) ==
    /\ ~SendDisabled
    /\ HandleSubmit(Null, limit)

\* ticker item: onClick={() => handleSubmit(null, `Tell me about ${prod.name}`)}
TickerClick(limit) ==
    \E name \in featuredProducts : HandleSubmit(Str(TellMeAbout \o name), limit)

----------------------------------------------------------------------------
(* handleSubmit: after the await *)

\* let reply = data.response || data.content
ReplyOf(data) == Or(data.response, data.content)

\* mutant of Unwrap: the message is taken without the payment_url test
UnwrapAnyPayload(reply) ==
    IF reply.type = "string" /\ Includes(reply.str, CodSuccess)
    THEN LET parsed == JSONParse(reply.str)
         IN  IF ~parsed.ok THEN reply
             ELSE IF parsed.val.type = "null" THEN reply
             ELSE Get(parsed.val, MessageKey)
    ELSE reply

\* the inner try/catch: a throw of JSON.parse, or of the property read on a
\* parsed null, leaves reply as it is
Unwrap(reply) ==
    IF reply.type = "string" /\ Includes(reply.str, CodSuccess)
    THEN LET parsed == JSONParse(reply.str)
         IN  IF ~parsed.ok THEN reply
             ELSE IF parsed.val.type = "null" THEN reply
             ELSE IF Get(parsed.val, PaymentUrlKey) = Str(CodSuccess)
                  THEN Get(parsed.val, MessageKey)
             ELSE reply
    ELSE reply

\* mutant of FinalReply: an empty reply is shown as it is
FinalReplyEmpty(reply) == Or(reply, Str(<<>>))

\* reply = reply || "I apologize, I couldn't connect."
FinalReply(reply) == Or(reply, Str(ApologyText))

DisplayedReply(data) == FinalReply(Unwrap(ReplyOf(data)))

\* the outer try throws: fetch or response.json() rejects, or data is null
\* and data.response is a TypeError
Throws(outcome) ==
    IF outcome.kind \in {"network_error", "bad_body"} THEN TRUE
    ELSE outcome.data.type = "null"

\* mutant of ThreadIdAfter: setThreadId without the test
ThreadIdAlwaysSet(tid, data) == data.thread_id

\* if (data.thread_id) setThreadId(data.thread_id)
ThreadIdAfter(tid, data) == IF Truthy(data.thread_id) THEN data.thread_id ELSE tid

\* mutant of LoadingAfter: the flag is not cleared
LoadingKept(loading) == loading

\* finally { setIsLoading(false) }
LoadingAfter(loading) == FALSE

\* the response carries a thread identifier (a non-empty one)
CarriesThreadId(data) == Truthy(data.thread_id)

\* request r resumes and the try block runs to its end
ResolveSuccessOf(r, o) ==
    /\ ~Throws(o)
    /\ pending' = pending \ {r}
    /\ chatHistory' = AppendMessage(chatHistory,
           [role |-> "ai", content |-> DisplayedReply(o.data).str])
    /\ threadId' = ThreadIdAfter(threadId, o.data)
    /\ isLoading' = LoadingAfter(isLoading)
    /\ lastCall' = [op |-> "resolved", outcome |-> o]
    /\ supplied' = IF CarriesThreadId(o.data) THEN o.data.thread_id ELSE supplied
    /\ UNCHANGED <<query, mode, selectedFile, toastVars, viewVars>>

\* request r resumes in the catch block
ResolveFailureOf(r, o) ==
    /\ Throws(o)
    /\ pending' = pending \ {r}
    /\ chatHistory' = AppendMessage(chatHistory,
           [role |-> "ai", content |-> ConnectionErrorText])
    /\ isLoading' = LoadingAfter(isLoading)
    /\ lastCall' = [op |-> "resolved", outcome |-> o]
    /\ UNCHANGED <<query, threadId, mode, selectedFile, supplied, toastVars, viewVars>>

ResolveSuccess(B) ==
    \E r \in pending, o \in Outcomes(B) : ResolveSuccessOf(r, o)

ResolveFailure(B) ==
    \E r \in pending, o \in Outcomes(B) : ResolveFailureOf(r, o)

----------------------------------------------------------------------------
(* The other handlers of the surface *)

\* onChange={(e) => setQuery(e.target.value)}
SetQuery ==
    \E s \in QueryInputs :
        /\ s # query
        /\ query' = s
        /\ lastCall' = [op |-> "other"]
        /\ UNCHANGED <<chatHistory, threadId, isLoading, mode, selectedFile, pending, supplied, toastVars, viewVars>>

\* onChange={(e) => setMode(e.target.value)}
SetMode ==
    \E m \in Modes :
        /\ m # mode
        /\ mode' = m
        /\ lastCall' = [op |-> "other"]
        /\ UNCHANGED <<query, chatHistory, threadId, isLoading, selectedFile, pending, supplied, toastVars, viewVars>>

\* onChange={(e) => e.target.files?.[0] && setSelectedFile(e.target.files[0])}
SelectFile ==
    \E f \in FileInputs :
        /\ f # selectedFile
        /\ selectedFile' = f
        /\ lastCall' = [op |-> "other"]
        /\ UNCHANGED <<query, chatHistory, threadId, isLoading, mode, pending, supplied, toastVars, viewVars>>

\* the x of the file preview, rendered while a file is selected
ClearFile ==
    /\ Truthy(selectedFile)
    /\ selectedFile' = Null
    /\ lastCall' = [op |-> "other"]
    /\ UNCHANGED <<query, chatHistory, threadId, isLoading, mode, pending, supplied, toastVars, viewVars>>

----------------------------------------------------------------------------
(* renderContent: the message text cut at the image tags; the image list   *)
(* of ProductGallery.  Indices are those of JavaScript (0-based) in the    *)
(* match object and in lastIndex, and 1-based inside the sequences.        *)

\* the literal parts of /<img src="([^"]*)" alt="([^"]*)"[^>]*>/g
ImgOpen == <<"<","i","m","g"," ","s","r","c","=","\"">>
AltOpen == <<"\""," ","a","l","t","=","\"">>

\* the first position from i on that holds the character c, 0 when none does
RECURSIVE IndexOf(_, _, _)
IndexOf(s, c, i) ==
    IF i > Len(s) THEN 0
    ELSE IF s[i] = c THEN i
    ELSE IndexOf(s, c, i + 1)

NoMatch == [ok |-> FALSE]

\* the expression tried at position p: [^"]* runs to the next quote, which
\* must open `" alt="`; the second [^"]* runs to the next quote; [^>]* runs
\* to the next `>`.  A shorter run of a class never helps, since the
\* character after it would not be the literal that follows.
MatchAt(s, p) ==
    IF ~StartsAt(s, p, ImgOpen) THEN NoMatch
    ELSE LET a == p + Len(ImgOpen)
             q1 == IndexOf(s, "\"", a)
         IN  IF q1 = 0 THEN NoMatch
             ELSE IF ~StartsAt(s, q1, AltOpen) THEN NoMatch
             ELSE LET b == q1 + Len(AltOpen)
                      q2 == IndexOf(s, "\"", b)
                  IN  IF q2 = 0 THEN NoMatch
                      ELSE LET g == IndexOf(s, ">", q2 + 1)
                           IN  IF g = 0 THEN NoMatch
                               ELSE [ok |-> TRUE,
                                     index |-> p - 1,
                                     src |-> SubSeq(s, a, q1 - 1),
                                     alt |-> SubSeq(s, b, q2 - 1),
                                     lastIndex |-> g]

RECURSIVE ExecFrom(_, _)
ExecFrom(s, p) ==
    IF p > Len(s) THEN NoMatch
    ELSE LET m == MatchAt(s, p)
         IN  IF m.ok THEN m ELSE ExecFrom(s, p + 1)

\* imgRegex.exec(content) while imgRegex.lastIndex is lastIndex: the
\* leftmost match that starts at or after lastIndex
Exec(s, lastIndex) == ExecFrom(s, lastIndex + 1)

\* String.prototype.substring(from, to)
Substring(s, from, to) == SubSeq(s, from + 1, to)

\* <ProductGallery key={match.index} imagesStr={match[1]} alt={match[2]} />
GalleryElement(key, imagesStr, alt) ==
    [type |-> "element", key |-> key, imagesStr |-> imagesStr, alt |-> alt]

\* mutant of TextAfter: the text after the last tag is not pushed
TextAfterDropped(content, lastIndex, parts) == parts

\* if (lastIndex < content.length) parts.push(content.substring(lastIndex))
TextAfter(content, lastIndex, parts) ==
    IF lastIndex < Len(content)
    THEN Append(parts, Str(Substring(content, lastIndex, Len(content))))
    ELSE parts

\* if (match.index > lastIndex) parts.push(content.substring(lastIndex, match.index))
TextBefore(content, lastIndex, index, parts) ==
    IF index > lastIndex
    THEN Append(parts, Str(Substring(content, lastIndex, index)))
    ELSE parts

\* the while loop over imgRegex.exec, then the push of the remaining text
RECURSIVE RenderLoop(_, _, _)
RenderLoop(content, lastIndex, parts) ==
    LET match == Exec(content, lastIndex)
    IN  IF ~match.ok
        THEN TextAfter(content, lastIndex, parts)
        ELSE RenderLoop(content, match.lastIndex,
                 Append(TextBefore(content, lastIndex, match.index, parts),
                        GalleryElement(match.index, match.src, match.alt)))

\* return parts.length > 0 ? parts : content
renderContent(content) ==
    LET parts == RenderLoop(content, 0, <<>>)
    IN  IF Len(parts) > 0 THEN Arr(parts) ELSE Str(content)

\* String.prototype.split with a one-character separator
RECURSIVE Split(_, _)
Split(s, sep) ==
    LET i == IndexOf(s, sep, 1)
    IN  IF i = 0 THEN <<s>>
        ELSE <<SubSeq(s, 1, i - 1)>> \o Split(SubSeq(s, i + 1, Len(s)), sep)

\* mutant of Images: the entries are not trimmed
ImagesUntrimmed(imagesStr) ==
    IF Truthy(Str(imagesStr))
    THEN SelectSeq(Split(imagesStr, ","), LAMBDA url : Len(url) > 0)
    ELSE <<>>

\* ProductGallery: imagesStr ? imagesStr.split(',').map(url => url.trim())
\*                                       .filter(url => url.length > 0) : []
Images(imagesStr) ==
    IF Truthy(Str(imagesStr))
    THEN LET urls == Split(imagesStr, ",")
         IN  SelectSeq([i \in 1..Len(urls) |-> Trim(urls[i])], LAMBDA url : Len(url) > 0)
    ELSE <<>>

\* pieces of message text: plain text, and whole image tags with the image
\* list and alt text they were written for
TextPiece(str) == [kind |-> "text", str |-> str]
TagPiece(str, urls, alt) == [kind |-> "tag", str |-> str, urls |-> urls, alt |-> alt]

AJpg == <<"a",".","j","p","g">>
BJpg == <<"b",".","j","p","g">>
CJpg == <<"c",".","j","p","g">>
Dress == <<"D","r","e","s","s">>

\* "Here "
HereText == TextPiece(<<"H","e","r","e"," ">>)
\* " nice"
NiceText == TextPiece(<<" ","n","i","c","e">>)
\* <img src="a.jpg, b.jpg" alt="Dress">
DressTag ==
    TagPiece(<<"<","i","m","g"," ","s","r","c","=","\"","a",".","j","p","g",","," ","b",".","j","p","g","\""," ","a","l","t","=","\"","D","r","e","s","s","\"",">">>,
             <<AJpg, BJpg>>, Dress)
\* <img src=" c.jpg ,," alt="" class="w">      (attributes after alt, empty entries, empty alt)
StyledTag ==
    TagPiece(<<"<","i","m","g"," ","s","r","c","=","\""," ","c",".","j","p","g"," ",",",",","\""," ","a","l","t","=","\"","\""," ","c","l","a","s","s","=","\"","w","\"",">">>,
             <<CJpg>>, <<>>)
\* <img src="" alt="Dress"/>                     (no image at all)
EmptyTag ==
    TagPiece(<<"<","i","m","g"," ","s","r","c","=","\"","\""," ","a","l","t","=","\"","D","r","e","s","s","\"","/",">">>,
             <<>>, Dress)
\* <img alt="x" src="y">                         (alt before src: not an image tag of the reply format)
SwappedText == TextPiece(<<"<","i","m","g"," ","a","l","t","=","\"","x","\""," ","s","r","c","=","\"","y","\"",">">>)
\* "> <                                          (stray delimiters)
StrayText == TextPiece(<<"\"",">"," ","<">>)

Pieces == {HereText, NiceText, DressTag, StyledTag, EmptyTag, SwappedText, StrayText}

PieceSeqs == UNION {[1..n -> Pieces] : n \in 0..MaxPieces}

RECURSIVE Flatten(_)
Flatten(ps) == IF ps = <<>> THEN <<>> ELSE Head(ps).str \o Flatten(Tail(ps))

\* {renderContent(msg.content)} in the render of a message
Render ==
    /\ rendered = Undefined
    /\ rendered' = renderContent(msgContent)
    /\ UNCHANGED <<pieces, msgContent, galleryImagesStr, currentIndex, sessionVars, toastVars, pending, lastCall, supplied>>

----------------------------------------------------------------------------
(* ProductGallery: the cursor of the carousel *)

\* what the component returns: null, one <img>, or the carousel
GalleryView(images) ==
    IF Len(images) = 0 THEN "null"
    ELSE IF Len(images) = 1 THEN "img"
    ELSE "carousel"

\* mutant of NextIndex: the cursor does not wrap
NextIndexNoWrap(prev, length) == prev + 1

\* (prev) => (prev + 1) % images.length
NextIndex(prev, length) == (prev + 1) % length

\* onClick={nextImage} of the carousel image
NextImage ==
    LET images == Images(galleryImagesStr)
    IN  /\ GalleryView(images) = "carousel"
        /\ currentIndex' = NextIndex(currentIndex, Len(images))
        /\ UNCHANGED <<pieces, msgContent, rendered, galleryImagesStr, sessionVars, toastVars, pending, lastCall, supplied>>

\* onClick of dot idx: setCurrentIndex(idx)
JumpTo(idx) ==
    LET images == Images(galleryImagesStr)
    IN  /\ GalleryView(images) = "carousel"
        /\ idx \in 0..(Len(images) - 1)
        /\ currentIndex' = idx
        /\ UNCHANGED <<pieces, msgContent, rendered, galleryImagesStr, sessionVars, toastVars, pending, lastCall, supplied>>

\* a non-negative number as JSX prints it
RECURSIVE NumberToString(_)
NumberToString(n) ==
    IF n < 10 THEN <<<<"0", "1", "2", "3", "4", "5", "6", "7", "8", "9">>[n + 1]>>
    ELSE NumberToString(n \div 10) \o NumberToString(n % 10)

\* {currentIndex + 1}/{images.length}
Overlay ==
    NumberToString(currentIndex + 1) \o <<"/">> \o NumberToString(Len(Images(galleryImagesStr)))

\* the entries an imagesStr is written with
GalleryEntries == {<<"a",".","j","p","g">>, <<" ","b",".","j","p","g">>, <<"c",".","j","p","g"," ">>, <<>>}

RECURSIVE Join(_, _)
Join(entries, sep) ==
    IF Len(entries) = 0 THEN <<>>
    ELSE IF Len(entries) = 1 THEN entries[1]
    ELSE entries[1] \o <<sep>> \o Join(Tail(entries), sep)

GalleryInputs ==
    {Join(es, ",") : es \in UNION {[1..n -> GalleryEntries] : n \in 0..MaxEntries}}

----------------------------------------------------------------------------
(* The toast timers of the mount effect.  Timers of one window run in the  *)
(* order of their due times.                                               *)

\* setToasts(prev => [...prev, { ...randomTrend, id }])
AddToast(prev, toast) == Append(prev, toast)

\* mutant of RemoveToast: nothing is removed
RemoveToastNever(prev, id) == prev

\* mutant of RemoveToast: the oldest toast is removed, whatever its id
RemoveToastOldest(prev, id) == IF prev = <<>> THEN prev ELSE Tail(prev)

\* setToasts(prev => prev.filter(t => t.id !== id))
RemoveToast(prev, id) == SelectSeq(prev, LAMBDA x : x.id # id)

\* mutant of Tick: the callback still runs after clearInterval
TickAfterTeardown(limit) ==
    /\ nextTick <= limit * TickPeriod
    /\ \A t \in timeouts : t.due > nextTick
    /\ \E i \in 1..Len(trends) :
          LET id == nextTick
          IN  /\ now' = id
              /\ toasts' = AddToast(toasts, [title |-> trends[i].title, body |-> trends[i].body, id |-> id])
              /\ timeouts' = timeouts \cup {[id |-> id, due |-> id + ToastLifetime]}
    /\ nextTick' = nextTick + TickPeriod
    /\ UNCHANGED <<sessionVars, pending, lastCall, supplied, intervalOn, viewVars>>

\* the setInterval callback; limit bounds the callbacks of a run
Tick(limit) ==
    /\ intervalOn
    /\ nextTick <= limit * TickPeriod
    /\ \A t \in timeouts : t.due > nextTick
    /\ \E i \in 1..Len(trends) :
          LET id == nextTick
          IN  /\ now' = id
              /\ toasts' = AddToast(toasts, [title |-> trends[i].title, body |-> trends[i].body, id |-> id])
              /\ timeouts' = timeouts \cup {[id |-> id, due |-> id + ToastLifetime]}
    /\ nextTick' = nextTick + TickPeriod
    /\ UNCHANGED <<sessionVars, pending, lastCall, supplied, intervalOn, viewVars>>

\* the setTimeout callback: setToasts(prev => prev.filter(t => t.id !== id))
Expire ==
    \E t \in timeouts :
        /\ \A u \in timeouts : t.due <= u.due
        /\ intervalOn => t.due <= nextTick
        /\ now' = t.due
        /\ toasts' = RemoveToast(toasts, t.id)
        /\ timeouts' = timeouts \ {t}
        /\ UNCHANGED <<sessionVars, pending, lastCall, supplied, nextTick, intervalOn, viewVars>>

\* the cleanup of the effect: clearInterval(interval)
Unmount ==
    /\ intervalOn
    /\ intervalOn' = FALSE
    /\ UNCHANGED <<sessionVars, pending, lastCall, supplied, toasts, now, nextTick, timeouts, viewVars>>

----------------------------------------------------------------------------
(* Specifications *)

\* the surface after its first render and mount effect
Mounted ==
    /\ query = <<>>
    /\ chatHistory = <<>>
    /\ threadId = Null
    /\ isLoading = FALSE
    /\ mode = "standard"
    /\ selectedFile = Null
    /\ toasts = <<>>
    /\ pending = {}
    /\ lastCall = [op |-> "other"]
    /\ supplied = Null
    /\ now = 0
    /\ nextTick = TickPeriod
    /\ timeouts = {}
    /\ intervalOn = TRUE

\* no message text is being rendered
Init ==
    /\ Mounted
    /\ pieces = <<>>
    /\ msgContent = <<>>
    /\ rendered = Undefined
    /\ galleryImagesStr = <<>>
    /\ currentIndex = 0

\* the conversation session, in the mode selected at mount (the mode is only
\* forwarded; NextReply and NextSurface let it change)
Next ==
    \/ SetQuery
    \/ SelectFile
    \/ ClearFile
    \/ FormSubmit(MaxSubmits)
    \/ TickerClick(MaxSubmits)
    \/ ResolveSuccess(Bodies)
    \/ ResolveFailure(Bodies)

Spec == Init /\ [][Next]_vars

\* the request whose Human message is at position k resumes
ResolveAt(k) ==
    \E r \in pending, o \in Outcomes(Bodies) :
        /\ r.at = k
        /\ (ResolveSuccessOf(r, o) \/ ResolveFailureOf(r, o))

\* the session, when every dispatched request eventually resolves
NextLive ==
    \/ SetQuery
    \/ SetMode
    \/ SelectFile
    \/ ClearFile
    \/ FormSubmit(MaxLiveSubmits)
    \/ TickerClick(MaxLiveSubmits)
    \/ ResolveSuccess(Bodies)
    \/ ResolveFailure(Bodies)

SpecLive ==
    Init /\ [][NextLive]_vars /\ \A k \in 1..(2 * MaxLiveSubmits) : WF_vars(ResolveAt(k))

\* the session against the full catalogue of response bodies
NextReply ==
    \/ SetQuery
    \/ SetMode
    \/ SelectFile
    \/ ClearFile
    \/ FormSubmit(MaxReplySubmits)
    \/ TickerClick(MaxReplySubmits)
    \/ ResolveSuccess(ReplyBodies)
    \/ ResolveFailure(ReplyBodies)

SpecReply == Init /\ [][NextReply]_vars

\* the session together with the toast timers
NextSurface ==
    \/ SetQuery
    \/ SetMode
    \/ SelectFile
    \/ ClearFile
    \/ FormSubmit(MaxSurfaceSubmits)
    \/ TickerClick(MaxSurfaceSubmits)
    \/ ResolveSuccess(Bodies)
    \/ ResolveFailure(Bodies)
    \/ Tick(MaxTicks)
    \/ Expire

SpecSurface == Init /\ [][NextSurface]_vars

\* the toast timers from mount to unmount and after; a timer that is due
\* eventually runs
NextToast ==
    \/ Tick(MaxToastTicks)
    \/ Expire
    \/ Unmount

SpecToast == Init /\ [][NextToast]_vars /\ WF_vars(Expire)

\* a gallery instance from its first render on
InitGallery ==
    /\ Mounted
    /\ pieces = <<>>
    /\ msgContent = <<>>
    /\ rendered = Undefined
    /\ galleryImagesStr \in GalleryInputs
    /\ currentIndex = 0

NextGallery ==
    \/ NextImage
    \/ \E idx \in 0..MaxEntries : JumpTo(idx)

SpecGallery == InitGallery /\ [][NextGallery]_vars

\* a message text is rendered
InitParser ==
    /\ Mounted
    /\ pieces \in PieceSeqs
    /\ msgContent = Flatten(pieces)
    /\ rendered = Undefined
    /\ galleryImagesStr = <<>>
    /\ currentIndex = 0

NextParser == Render

SpecParser == InitParser /\ [][NextParser]_vars

----------------------------------------------------------------------------
(* Steps, as seen on the in-flight set *)

\* a request was dispatched in this step
DispatchStep == pending' # pending /\ pending \subseteq pending'
\* a request resumed after its await in this step
ResolveStep == pending' # pending /\ pending' \subseteq pending

Last(h) == h[Len(h)]

----------------------------------------------------------------------------
(* Claims *)

\* C1: a submit made while the pending flag is set is rejected, so at most
\* one request is in flight in every reachable state.
AtMostOneInFlight == Cardinality(pending) <= 1

\* C2: the pending flag is true exactly while a dispatched request has not
\* yet resolved.
PendingFlagExact == isLoading <=> (pending # {})

\* the overrides a caller of handleSubmit can pass: none, a ticker text, a
\* blank text
SubmitOverrides ==
    {Null, Str(<<>>), Str(Blank)} \cup {Str(TellMeAbout \o name) : name \in featuredProducts}

\* C3: a submit whose effective text is empty or only whitespace, made with
\* no attachment, changes nothing of the session and dispatches no request.
BlankSubmitIsNoOp ==
    [][\A o \in SubmitOverrides :
          (/\ HandleSubmit(o, MaxSubmits)
           /\ Trim(TextToSend(o)) = <<>>
           /\ selectedFile = Null)
          => (lastCall'.op = "rejected" /\ UNCHANGED <<sessionVars, pending>>)]_vars

\* C3 witness: the form was submitted with a blank buffer and no attachment
BlankSubmitSeen ==
    /\ lastCall.op = "rejected"
    /\ query = Blank
    /\ selectedFile = Null

InFlight(k) == \E r \in pending : r.at = k

\* C4: every accepted submit is eventually followed by exactly one Assistant
\* message for its request and by a cleared pending flag, however the
\* request ends.
EveryRequestAnswered ==
    /\ [][ResolveStep =>
             /\ Cardinality(pending \ pending') = 1
             /\ Len(chatHistory') = Len(chatHistory) + 1
             /\ Last(chatHistory').role = "ai"
             /\ ~isLoading']_vars
    /\ [](NumRole(chatHistory, "ai") + Cardinality(pending) = NumRole(chatHistory, "human"))
    /\ \A k \in 1..(2 * MaxLiveSubmits) : InFlight(k) ~> (~InFlight(k) /\ ~isLoading)

\* C4 witness: a request was answered after its body could not be decoded,
\* and the flag is clear
FailureAnsweredSeen ==
    /\ Len(chatHistory) = 2
    /\ pending = {}
    /\ ~isLoading
    /\ lastCall.op = "resolved"
    /\ lastCall.outcome.kind = "bad_body"
    /\ Last(chatHistory) = [role |-> "ai", content |-> ConnectionErrorText]

\* C5: an accepted submit made with an attachment leaves the slot empty in
\* the very next state, and no resolution of a request changes the slot.
AttachmentClearedAtSubmit ==
    [][/\ (DispatchStep /\ Truthy(selectedFile)) => selectedFile' = Null
       /\ ResolveStep => selectedFile' = selectedFile]_vars

\* C5 witness: a request carrying the attachment has failed and the slot is
\* still empty while another request carrying it is in flight
AttachmentGoneSeen ==
    /\ selectedFile = Null
    /\ \E r \in pending : Truthy(r.form.file)
    /\ chatHistory # <<>>
    /\ Last(chatHistory) = [role |-> "ai", content |-> ConnectionErrorText]

\* C6: once a response has supplied a thread id, every request dispatched
\* afterwards carries the thread id the session holds at dispatch; before
\* that the field is omitted.
ThreadIdEchoed ==
    [][\A r \in pending' \ pending :
          IF supplied = Null
          THEN r.form.thread_id = Undefined
          ELSE Truthy(threadId) /\ r.form.thread_id = threadId]_vars

\* C6 witness: a request in flight carries the thread id a response supplied
ThreadIdEchoSeen ==
    /\ supplied = Str(T2)
    /\ \E r \in pending : r.form.thread_id = Str(T2)

\* C7: history is a strict alternation Human, Assistant, Human, ... and each
\* Assistant message immediately follows the Human message of its request.
StrictAlternation ==
    /\ \A i \in 1..Len(chatHistory) :
          chatHistory[i].role = IF i % 2 = 1 THEN "human" ELSE "ai"
    /\ \A r \in pending : r.at = Len(chatHistory)

\* C8: across every step the previous history is a prefix of the new one.
HistoryAppendOnly == [][IsPrefix(chatHistory, chatHistory')]_vars

\* C8 witness: a round is complete while a toast is on screen
HistoryGrownSeen ==
    /\ Len(chatHistory) = 2
    /\ toasts # <<>>
    /\ lastCall.op = "rejected"

\* C9: threadId changes only when a successful response carries a thread
\* identifier, and then to that identifier; once non-null it is never
\* cleared.
ThreadIdOnlyFromResponse ==
    [][/\ IF /\ ResolveStep
             /\ ~Throws(lastCall'.outcome)
             /\ CarriesThreadId(lastCall'.outcome.data)
          THEN threadId' = lastCall'.outcome.data.thread_id
          ELSE threadId' = threadId
       /\ threadId # Null => threadId' # Null]_vars

\* C9 witness: a response supplied a thread id and a later request failed;
\* the thread id is still held
ThreadIdKeptSeen ==
    /\ threadId = Str(T2)
    /\ lastCall.op = "resolved"
    /\ Throws(lastCall.outcome)
    /\ Len(chatHistory) = 4

\* the reply the unwrap rule prescribes for a raw reply string
PrescribedUnwrap(raw) ==
    IF Includes(raw.str, CodSuccess)
    THEN LET parsed == JSONParse(raw.str)
         IN  IF parsed.ok /\ Get(parsed.val, PaymentUrlKey) = Str(CodSuccess)
             THEN Get(parsed.val, MessageKey)
             ELSE raw
    ELSE raw

\* the step decoded a body whose reply is a string
StringReplyStep ==
    /\ ResolveStep
    /\ ~Throws(lastCall'.outcome)
    /\ ReplyOf(lastCall'.outcome.data).type = "string"

\* C10 as stated: the displayed reply of a marked reply is the payload's
\* message when it parses with payment_url COD_SUCCESS and the original text
\* otherwise; an unmarked reply is shown unchanged; never the
\* connection-error message.
CodUnwrapShown ==
    [][StringReplyStep =>
          /\ Last(chatHistory').content # ConnectionErrorText
          /\ Str(Last(chatHistory').content)
                = PrescribedUnwrap(ReplyOf(lastCall'.outcome.data))]_vars

\* C10 as amended: the same, except that an empty or absent result is
\* displayed as the fixed apology string.
CodUnwrapShownOrApology ==
    [][StringReplyStep =>
          /\ Last(chatHistory').content # ConnectionErrorText
          /\ Str(Last(chatHistory').content)
                = LET u == PrescribedUnwrap(ReplyOf(lastCall'.outcome.data))
                  IN  IF u.type = "string" /\ u.str # <<>> THEN u ELSE Str(ApologyText)]_vars

\* C10 witness: a pretty-printed receipt was unwrapped to its message
ReceiptUnwrappedSeen ==
    /\ lastCall.op = "resolved"
    /\ lastCall.outcome.kind = "body"
    /\ lastCall.outcome.data = Data(Str(CodReceiptSpaced), Undefined, Undefined)
    /\ Last(chatHistory) = [role |-> "ai", content |-> Order5]

----------------------------------------------------------------------------
(* Claims on renderContent *)

\* what is put on screen for a returned value: the items of an array, or
\* the returned string as one text
PartsOf(r) == IF r.type = "array" THEN r.items ELSE <<r>>

\* the characters a part stands for: a text stands for itself, a gallery for
\* the span of the tag matched at its key
SpanOf(text, part) ==
    IF part.type = "string" THEN part.str
    ELSE LET m == MatchAt(text, part.key + 1)
         IN  Substring(text, m.index, m.lastIndex)

RECURSIVE Reconstructed(_, _)
Reconstructed(text, parts) ==
    IF parts = <<>> THEN <<>>
    ELSE SpanOf(text, Head(parts)) \o Reconstructed(text, Tail(parts))

\* C11: for every message text renderContent returns; the texts it emits and
\* the spans of the tags it matched, concatenated in order, are the text
\* again; a text without any tag comes back whole, as one text.
ParserTotalCoverage ==
    /\ renderContent(msgContent).type \in {"array", "string"}
    /\ rendered # Undefined =>
          /\ rendered = renderContent(msgContent)
          /\ Reconstructed(msgContent, PartsOf(rendered)) = msgContent
          /\ ~Exec(msgContent, 0).ok => PartsOf(rendered) = <<Str(msgContent)>>

\* C11 witness: a text that starts with a tag and ends with text that only
\* looks like one was cut in two parts
TailKeptSeen ==
    /\ pieces = <<StyledTag, SwappedText>>
    /\ rendered # Undefined
    /\ rendered.type = "array"
    /\ Len(rendered.items) = 2
    /\ rendered.items[1].type = "element"
    /\ rendered.items[2] = Str(SwappedText.str)

\* the two kinds of segment on screen
PlainText(text) == [segment |-> "PlainText", text |-> text]
ImageGallery(urls, alt) == [segment |-> "ImageGallery", urls |-> urls, alt |-> alt]

SegmentOf(part) ==
    IF part.type = "string" THEN PlainText(part.str)
    ELSE ImageGallery(Images(part.imagesStr), part.alt)

\* the segments of a returned value; a returned empty string puts nothing
\* on screen
SegmentsOf(r) ==
    IF r.type = "array" THEN [i \in 1..Len(r.items) |-> SegmentOf(r.items[i])]
    ELSE IF r.str = <<>> THEN <<>>
    ELSE <<PlainText(r.str)>>

\* the segments the pieces of a text call for: a gallery per tag, with the
\* image list and alt text the tag was written for, and one text per
\* non-empty stretch between tags
RECURSIVE ExpectedSegments(_, _)
ExpectedSegments(ps, acc) ==
    IF ps = <<>> THEN acc
    ELSE LET h == Head(ps)
         IN  IF h.kind = "tag"
             THEN ExpectedSegments(Tail(ps), Append(acc, ImageGallery(h.urls, h.alt)))
             ELSE IF h.str = <<>>
             THEN ExpectedSegments(Tail(ps), acc)
             ELSE IF acc # <<>> /\ acc[Len(acc)].segment = "PlainText"
             THEN ExpectedSegments(Tail(ps),
                      [acc EXCEPT ![Len(acc)] = PlainText(acc[Len(acc)].text \o h.str)])
             ELSE ExpectedSegments(Tail(ps), Append(acc, PlainText(h.str)))

\* C12: the segments come in the order of the text: one gallery per image
\* tag, holding the trimmed non-empty entries of the comma-separated src in
\* order and the alt text, and one plain text per non-empty stretch before,
\* between and after the tags, none for an empty stretch.
ParserSegments ==
    rendered # Undefined =>
        /\ SegmentsOf(rendered) = ExpectedSegments(pieces, <<>>)
        /\ \A i, j \in 1..Len(PartsOf(rendered)) :
              (/\ i < j
               /\ PartsOf(rendered)[i].type = "element"
               /\ PartsOf(rendered)[j].type = "element")
              => PartsOf(rendered)[i].key < PartsOf(rendered)[j].key

\* C12 witness: Here <img src="a.jpg, b.jpg" alt="Dress"> nice was rendered
\* as a text, a gallery of two images, and a text
GalleryParsedSeen ==
    /\ pieces = <<HereText, DressTag, NiceText>>
    /\ rendered # Undefined
    /\ SegmentsOf(rendered) =
          << PlainText(HereText.str),
             ImageGallery(<<AJpg, BJpg>>, Dress),
             PlainText(NiceText.str) >>

----------------------------------------------------------------------------
(* Claims on the toast timers *)

\* the ids of the toasts created so far: the interval callbacks that have run
Created == {id \in {k * TickPeriod : k \in 1..MaxToastTicks} : id < nextTick}

Present(id) == \E i \in 1..Len(toasts) : toasts[i].id = id

\* C13: a toast created at a tick is in the toast set from its creation
\* until its lifetime has elapsed and absent from then on; once absent it
\* never comes back, whatever other toasts are created or removed.
ToastLifecycle ==
    /\ [](\A id \in Created : Present(id) <=> now < id + ToastLifetime)
    /\ [](\A i \in 1..Len(toasts) : toasts[i].id \in Created)
    /\ [][\A id \in Created : ~Present(id) => ~Present(id)']_vars
    /\ \A k \in 1..MaxToastTicks : Present(k * TickPeriod) ~> ~Present(k * TickPeriod)

\* C13 witness: the first toast has come and gone, the second is on screen
SecondToastSeen ==
    /\ Created = {TickPeriod, 2 * TickPeriod}
    /\ ~Present(TickPeriod)
    /\ Present(2 * TickPeriod)
    /\ now = 2 * TickPeriod

\* C14: one interval runs per mounted surface: its callbacks come one period
\* apart and each creates one toast; after the cleanup of the effect the
\* interval is never started again, no callback of it runs and no toast is
\* created, while the removals already scheduled still run.
SingleScheduler ==
    /\ [](nextTick % TickPeriod = 0)
    /\ [][/\ Len(toasts') > Len(toasts) =>
                /\ intervalOn
                /\ Len(toasts') = Len(toasts) + 1
                /\ now' = nextTick
                /\ nextTick' = nextTick + TickPeriod
          /\ nextTick' # nextTick => Len(toasts') > Len(toasts)
          /\ ~intervalOn =>
                /\ ~intervalOn'
                /\ nextTick' = nextTick
                /\ Len(toasts') <= Len(toasts)]_vars
    /\ (~intervalOn /\ timeouts # {}) ~> (~intervalOn /\ timeouts = {} /\ toasts = <<>>)

\* C14 witness: the surface was unmounted after its third tick, while the
\* removal of the third toast was still scheduled
TeardownSeen ==
    /\ ~intervalOn
    /\ nextTick = 4 * TickPeriod
    /\ Present(3 * TickPeriod)
    /\ timeouts = {[id |-> 3 * TickPeriod, due |-> 3 * TickPeriod + ToastLifetime]}

\* toast sets of up to MaxAlive toasts with different ids, to apply the
\* updaters to
SampleToast(k) == [title |-> trends[1].title, body |-> trends[1].body, id |-> k * TickPeriod]
SampleToastSets ==
    {ts \in UNION {[1..n -> {SampleToast(k) : k \in 1..MaxAlive}] : n \in 0..MaxAlive} :
        \A i, j \in 1..Len(ts) : i # j => ts[i].id # ts[j].id}

\* prev without the toast of the given id, the others in their order
Without(prev, id) ==
    IF \E i \in 1..Len(prev) : prev[i].id = id
    THEN LET i == CHOOSE i \in 1..Len(prev) : prev[i].id = id
         IN  SubSeq(prev, 1, i - 1) \o SubSeq(prev, i + 1, Len(prev))
    ELSE prev

\* C20: a tick puts exactly one toast at the end of the set, with an id no
\* toast of the set has, and leaves the others and their order as they
\* were; a removal takes out exactly the toast of its id, or nothing when
\* that toast is gone, and leaves the others and their order as they were.
ToastSetFrame ==
    /\ [][/\ nextTick' # nextTick =>
                /\ Len(toasts') = Len(toasts) + 1
                /\ SubSeq(toasts', 1, Len(toasts)) = toasts
                /\ \A i \in 1..Len(toasts) : toasts[i].id # toasts'[Len(toasts')].id
          /\ \A t \in timeouts \ timeouts' : toasts' = Without(toasts, t.id)]_vars
    /\ [](\A prev \in SampleToastSets : \A k \in 1..(MaxAlive + 1) :
              /\ RemoveToast(prev, k * TickPeriod) = Without(prev, k * TickPeriod)
              /\ AddToast(prev, SampleToast(k)) = prev \o <<SampleToast(k)>>)

\* C20 witness: the removal of the second toast has run on the mounted
\* surface and the set is empty again
ToastRemovedSeen ==
    /\ intervalOn
    /\ toasts = <<>>
    /\ timeouts = {}
    /\ now = 2 * TickPeriod + ToastLifetime

----------------------------------------------------------------------------
(* Claims on the steps of handleSubmit *)

\* the text after the effective text of a Human message
AttachedSuffix(file) ==
    IF file = Null THEN <<>>
    ELSE <<" ","[","A","t","t","a","c","h","e","d",":"," ">> \o file.name \o <<"]">>

\* handleSubmit is called with override o and the submit is accepted
AcceptedSubmit(o, limit) ==
    /\ HandleSubmit(o, limit)
    /\ (Trim(TextToSend(o)) # <<>> \/ selectedFile # Null)

\* C15: an accepted submit, in one step, appends one Human message whose
\* content is the effective text, followed by " [Attached: <name>]" when a
\* file is attached; empties the input buffer, also when the text came from
\* the override; empties the attachment slot; sets the pending flag; and
\* leaves mode and threadId as they were.
AcceptedSubmitEffect ==
    [][\A o \in SubmitOverrides :
          AcceptedSubmit(o, MaxReplySubmits) =>
              /\ chatHistory' = chatHistory \o
                    << [role |-> "human",
                        content |-> TextToSend(o) \o AttachedSuffix(selectedFile)] >>
              /\ query' = <<>>
              /\ selectedFile' = Null
              /\ isLoading'
              /\ mode' = mode
              /\ threadId' = threadId]_vars

\* C15 witness: a ticker item was clicked in mode vto with a file attached;
\* the request is in flight and buffer and slot are empty
TickerSubmitSeen ==
    /\ chatHistory =
          << [role |-> "human",
              content |-> TellMeAbout \o <<"W","i","l","d"," ","B","l","o","o","m"," ","W","h","i","s","p","e","r">>
                          \o <<" ","[","A","t","t","a","c","h","e","d",":"," ","a",".","p","n","g","]">>] >>
    /\ query = <<>>
    /\ selectedFile = Null
    /\ isLoading
    /\ mode = "vto"
    /\ pending # {}

\* the request ended in a transport error or in a body that does not decode
FailedStep ==
    /\ ResolveStep
    /\ lastCall'.outcome.kind \in {"network_error", "bad_body"}

\* C16: when a request fails, exactly one Assistant message with the
\* connection-error text is appended, no request is dispatched, and
\* threadId, mode, the input buffer and the attachment slot stay as they
\* were.
FailureAnswer ==
    [][FailedStep =>
          /\ chatHistory' = chatHistory \o
                << [role |-> "ai",
                    content |-> <<"C","o","n","n","e","c","t","i","o","n"," ","e","r","r","o","r","."," ",
                                  "P","l","e","a","s","e"," ","t","r","y"," ","a","g","a","i","n",".">>] >>
          /\ pending' \subseteq pending
          /\ threadId' = threadId
          /\ mode' = mode
          /\ query' = query
          /\ selectedFile' = selectedFile]_vars

\* C16 witness: the second request of a thread failed in transport while
\* the user had typed again and attached a file; all of that is still there
TransportFailureSeen ==
    /\ lastCall.op = "resolved"
    /\ lastCall.outcome.kind = "network_error"
    /\ Len(chatHistory) = 4
    /\ Last(chatHistory).role = "ai"
    /\ Last(chatHistory).content = ConnectionErrorText
    /\ threadId = Str(T1)
    /\ query = Hi
    /\ selectedFile # Null
    /\ pending = {}

\* C17: an accepted submit dispatches exactly one request: its query field
\* is the effective text, or one space when that text is empty, and never
\* the empty string; its mode field is the mode of the session at that
\* moment; its file field is there exactly when a file was attached, and is
\* that file.  A request in flight is not altered by what happens later: it
\* stays as dispatched until it resolves.
RequestFields ==
    [][/\ \A o \in SubmitOverrides :
             AcceptedSubmit(o, MaxReplySubmits) =>
                 /\ Cardinality(pending' \ pending) = 1
                 /\ pending \subseteq pending'
                 /\ \A r \in pending' \ pending :
                       /\ r.form.query = IF TextToSend(o) = <<>> THEN <<" ">> ELSE TextToSend(o)
                       /\ r.form.query # <<>>
                       /\ r.form.mode = mode
                       /\ r.form.file = IF selectedFile = Null THEN Undefined ELSE selectedFile
       /\ DispatchStep => \E o \in SubmitOverrides : AcceptedSubmit(o, MaxReplySubmits)
       /\ ~ResolveStep => pending \subseteq pending']_vars

\* C17 witness: a request dispatched in mode vto with a file and no text is
\* in flight, with one space as its query, after the mode was changed back
\* and another file attached
RequestKeptSeen ==
    /\ mode = "standard"
    /\ selectedFile # Null
    /\ \E r \in pending :
          /\ r.form.query = <<" ">>
          /\ r.form.mode = "vto"
          /\ r.form.file = File(<<"a", ".", "p", "n", "g">>)

\* the reply the priority rule prescribes: response when the field is
\* present, content only when it is absent
PrescribedReply(data) ==
    IF data.response # Undefined THEN data.response ELSE data.content

\* a body was decoded in this step
DecodedStep ==
    /\ ResolveStep
    /\ ~Throws(lastCall'.outcome)

\* C18: the reply taken from a decoded body is its response field whenever
\* that field is present, and its content field only when response is
\* absent; what is displayed is that reply after unwrap and apology
\* substitution.
ResponseFieldFirst ==
    [][DecodedStep =>
          Str(Last(chatHistory').content)
              = FinalReply(Unwrap(PrescribedReply(lastCall'.outcome.data)))]_vars

\* the reply of a decoded body after the receipt unwrap
UnwrappedReply(data) ==
    LET reply == ReplyOf(data)
    IN  IF reply.type = "string" THEN PrescribedUnwrap(reply) ELSE reply

\* C19: every Assistant message of the history has non-empty content; when
\* the reply of a decoded body, after the receipt unwrap, is empty or
\* absent (also when a receipt has no message or an empty one), the message
\* appended is the apology text.
AssistantNeverEmpty ==
    /\ [](\A i \in 1..Len(chatHistory) :
             chatHistory[i].role = "ai" => chatHistory[i].content # <<>>)
    /\ [][(/\ DecodedStep
           /\ UnwrappedReply(lastCall'.outcome.data) \in {Undefined, Str(<<>>)})
          => /\ Len(chatHistory') = Len(chatHistory) + 1
             /\ Last(chatHistory') =
                   [role |-> "ai",
                    content |-> <<"I"," ","a","p","o","l","o","g","i","z","e",","," ",
                                  "I"," ","c","o","u","l","d","n","'","t"," ",
                                  "c","o","n","n","e","c","t",".">>]]_vars

\* C19 witness: a receipt with an empty message was answered with the
\* apology text
ApologyShownSeen ==
    /\ lastCall.op = "resolved"
    /\ lastCall.outcome.kind = "body"
    /\ lastCall.outcome.data = Data(Str(CodEmptyMessage), Undefined, Undefined)
    /\ Last(chatHistory).role = "ai"
    /\ Last(chatHistory).content = ApologyText

----------------------------------------------------------------------------
(* Claims on the gallery cursor *)

\* the number of images of the gallery instance
GalleryLength == Len(Images(galleryImagesStr))

\* C21: in a gallery of n >= 2 images the cursor starts at 0 and stays
\* within 0..n-1 whatever is clicked; a click on the image moves it to
\* (cursor + 1) mod n, a click on dot i moves it to i, and the overlay reads
\* cursor + 1, a slash, n.
GalleryCursor ==
    /\ currentIndex = 0
    /\ [](GalleryLength >= 2 =>
             /\ currentIndex \in 0..(GalleryLength - 1)
             /\ \E shown \in 1..GalleryLength :
                   /\ shown = currentIndex + 1
                   /\ Overlay = <<<<"1", "2", "3", "4", "5", "6", "7", "8", "9">>[shown],
                                  "/",
                                  <<"1", "2", "3", "4", "5", "6", "7", "8", "9">>[GalleryLength]>>)
    /\ [][/\ NextImage =>
                currentIndex' = IF currentIndex + 1 = GalleryLength THEN 0 ELSE currentIndex + 1
          /\ \A i \in 0..MaxEntries : JumpTo(i) => currentIndex' = i
          /\ currentIndex' # currentIndex => GalleryLength >= 2]_vars

\* C21 witness: the cursor of a gallery of three images is on the last one
\* and the overlay reads 3/3
LastImageSeen ==
    /\ GalleryLength = 3
    /\ currentIndex = 2
    /\ Overlay = <<"3", "/", "3">>

----------------------------------------------------------------------------
(* Claim on the two periods together *)

\* C22: with a period of 45 s and a lifetime of 5 s every toast is removed
\* before the next interval callback runs, so that callback finds the set
\* empty and the set never holds more than one toast.
AtMostOneToast ==
    /\ [](Len(toasts) <= 1)
    /\ [][nextTick' # nextTick => (toasts = <<>> /\ timeouts = {})]_vars

\* C22 witness: the second toast is alone on screen, its removal scheduled,
\* while a request of the session is in flight
LoneToastSeen ==
    /\ Len(toasts) = 1
    /\ toasts[1].id = 2 * TickPeriod
    /\ timeouts = {[id |-> 2 * TickPeriod, due |-> 2 * TickPeriod + ToastLifetime]}
    /\ pending # {}

====
